---- MODULE Spec2Model ----
(***************************************************************************)
(* Shelly smart-plug exporter: load_plugs (src/main.rs), the /metrics      *)
(* handler (src/main.rs) and get_metrics / call_shelly_plug /              *)
(* convert_to_prometheus (src/shelly_service.rs).                          *)
(*                                                                         *)
(* Text is a sequence of tokens.  A token is a one-character string or an  *)
(* atomic piece of text that contains no line break and no ':' (a metric   *)
(* name, a rendered JSON scalar, "10.0.0.").  NL is the line break.        *)
(***************************************************************************)
EXTENDS Integers, Sequences, FiniteSets, TLC

VARIABLES
    ip_addrs,             \* Args.ip_addrs
    hostname_ip_mapping,  \* Args.hostname_ip_mapping
    plugs,                \* AppState.plugs
    pc,                   \* position of the process / of the one scrape run
    idx,                  \* position of the `for plug in plugs` loop (1-based)
    output,               \* get_metrics: output
    first,                \* get_metrics: first
    status,               \* status code of the response whose body is awaited
    inflight,             \* devices with an outstanding request
    requests,             \* history: devices requested, in the order issued
    calls,                \* history: completed call_shelly_plug calls
    result,               \* what get_metrics returned
    response,             \* what the /metrics handler answered
    log                   \* the log stream (message kinds)

vars == <<ip_addrs, hostname_ip_mapping, plugs, pc, idx, output, first, status,
          inflight, requests, calls, result, response, log>>

----------------------------------------------------------------------------
(* Bounds *)

MaxPlugs == 2       \* longest address list of Spec
MaxAddrs == 2       \* longest address list of SpecLoad
MaxMappings == 2    \* longest mapping list of SpecLoad

----------------------------------------------------------------------------
(* Text *)

NL == "\n"

\* str::split(sep).collect::<Vec<&str>>(): the pieces between the occurrences
\* of sep, in order, empty pieces included (one piece more than occurrences)
split(s, sep) ==
    LET at == {n \in 1..Len(s) : s[n] = sep}
        pos(k) == IF k = 0 THEN 0
                  ELSE IF k > Cardinality(at) THEN Len(s) + 1
                  ELSE CHOOSE p \in at : Cardinality({q \in at : q < p}) = k - 1
    IN [k \in 1..(Cardinality(at) + 1) |-> SubSeq(s, pos(k - 1) + 1, pos(k) - 1)]

\* str::contains(sub): sub occurs in s as a contiguous piece
contains(s, sub) ==
    \E i \in 0..(Len(s) - Len(sub)) : SubSeq(s, i + 1, i + Len(sub)) = sub

SeqsUpTo(S, n) == UNION {[1..k -> S] : k \in 0..n}

----------------------------------------------------------------------------
(* load_plugs *)

\* the alias load_plugs derives for one address: the first mapping that
\* contains the address decides (both branches end in `break`)
RECURSIVE alias_for(_, _)
alias_for(ip, mappings) ==
    IF mappings = <<>> THEN ip
    ELSE LET mapping == Head(mappings) IN
         IF contains(mapping, ip)
         THEN IF ~contains(mapping, <<":">>)
              THEN ip
              ELSE split(mapping, ":")[2]
         ELSE alias_for(ip, Tail(mappings))

\* the warning load_plugs logs for one address, if any
RECURSIVE warnings_for(_, _)
warnings_for(ip, mappings) ==
    IF mappings = <<>> THEN <<>>
    ELSE LET mapping == Head(mappings) IN
         IF contains(mapping, ip)
         THEN IF ~contains(mapping, <<":">>)
              THEN <<"warn: Invalid mapping">>
              ELSE <<>>
         ELSE warnings_for(ip, Tail(mappings))

plug_url(ip) == <<"http://">> \o ip \o <<"/rpc/Switch.GetStatus?id=0">>

load_plugs(ips, mappings) ==
    [i \in 1..Len(ips) |->
        [url |-> plug_url(ips[i]), alias |-> alias_for(ips[i], mappings)]]

RECURSIVE load_warnings(_, _)
load_warnings(ips, mappings) ==
    IF ips = <<>> THEN <<>>
    ELSE warnings_for(Head(ips), mappings) \o load_warnings(Tail(ips), mappings)

----------------------------------------------------------------------------
(* serde_json::Value *)

NoMembers == <<>>

JNull == [kind |-> "null", text |-> "null", members |-> NoMembers]
JNum(t) == [kind |-> "number", text |-> t, members |-> NoMembers]
JStr(t) == [kind |-> "string", text |-> t, members |-> NoMembers]
JArr == [kind |-> "array", text |-> "[]", members |-> NoMembers]
JObj(m) == [kind |-> "object", text |-> "{}", members |-> m]

\* marks a key that an object does not have (never a member of an object)
Absent == [kind |-> "absent", text |-> "", members |-> NoMembers]

\* the object whose members are the given values that are not Absent
ObjectOf(all) ==
    JObj([k \in {key \in DOMAIN all : all[key].kind # "absent"} |-> all[k]])

\* http_data[key]: the member, or Value::Null when http_data is no object
\* or has no such key
Index(v, key) ==
    IF v.kind = "object" /\ key \in DOMAIN v.members THEN v.members[key] ELSE JNull

\* Display of a Value (compact JSON).  Every value that is displayed here is a
\* scalar, an empty array or an empty object: `text` is its compact JSON.
Display(v) == v.text

GoodShellyData ==
    ObjectOf([apower |-> JNum("1.0"), voltage |-> JNum("2.0"),
              current |-> JNum("3.0"),
              temperature |-> ObjectOf([tC |-> JNum("20.1"), tF |-> JNum("68.2")]),
              aenergy |-> ObjectOf([total |-> JNum("45645634.12")])])

\* every JSON value of the bounded universe: objects with any subset of the
\* expected keys, nested values that are not objects, and non-objects
TemperatureValues ==
    {JNum("5")} \cup
    {ObjectOf([tC |-> c, tF |-> f]) : c \in {Absent, JNum("20.1")},
                                      f \in {Absent, JNum("68.2")}}

AenergyValues ==
    {JArr} \cup {ObjectOf([total |-> t]) : t \in {Absent, JNum("45645634.12")}}

AllJson ==
    {JNull, JNum("7"), JArr} \cup
    {ObjectOf([apower |-> a, voltage |-> v, current |-> c,
               temperature |-> t, aenergy |-> e]) :
        a \in {Absent, JNum("1.0"), JStr("\"on\"")},
        v \in {Absent, JNum("2.0")},
        c \in {Absent, JNum("3.0")},
        t \in {Absent} \cup TemperatureValues,
        e \in {Absent} \cup AenergyValues}

SampleJson ==
    {GoodShellyData,
     ObjectOf([apower |-> JNum("2.5"), voltage |-> Absent, current |-> Absent,
               temperature |-> JNum("5"), aenergy |-> Absent])}

----------------------------------------------------------------------------
(* convert_to_prometheus *)

MetricNames ==
    <<"current_datetime", "power_watts", "voltage", "current_amps",
      "temperature_celsius", "temperature_fahrenheit",
      "running_total_power_consumed_watts">>

\* one line of the format string: `<name>{hostname=<alias>} <value>`
MetricLine(name, alias, value) ==
    <<name, "{hostname=">> \o alias \o <<"}", " ", value>>

\* the temperatures are read at the top level
convert_unnested(http_data, alias, datetime) ==
    MetricLine("current_datetime", alias, datetime) \o <<NL>> \o
    MetricLine("power_watts", alias, Display(Index(http_data, "apower"))) \o <<NL>> \o
    MetricLine("voltage", alias, Display(Index(http_data, "voltage"))) \o <<NL>> \o
    MetricLine("current_amps", alias, Display(Index(http_data, "current"))) \o <<NL>> \o
    MetricLine("temperature_celsius", alias, Display(Index(http_data, "tC"))) \o <<NL>> \o
    MetricLine("temperature_fahrenheit", alias, Display(Index(http_data, "tF"))) \o <<NL>> \o
    MetricLine("running_total_power_consumed_watts", alias,
               Display(Index(Index(http_data, "aenergy"), "total")))

\* `datetime` is Utc::now() at render time, formatted
convert_to_prometheus(http_data, alias, datetime) ==
    MetricLine("current_datetime", alias, datetime) \o <<NL>> \o
    MetricLine("power_watts", alias, Display(Index(http_data, "apower"))) \o <<NL>> \o
    MetricLine("voltage", alias, Display(Index(http_data, "voltage"))) \o <<NL>> \o
    MetricLine("current_amps", alias, Display(Index(http_data, "current"))) \o <<NL>> \o
    MetricLine("temperature_celsius", alias,
               Display(Index(Index(http_data, "temperature"), "tC"))) \o <<NL>> \o
    MetricLine("temperature_fahrenheit", alias,
               Display(Index(Index(http_data, "temperature"), "tF"))) \o <<NL>> \o
    MetricLine("running_total_power_consumed_watts", alias,
               Display(Index(Index(http_data, "aenergy"), "total")))

DateTimes == {"2024-05-01T10:00:00.000Z", "2024-05-01T10:00:10.250Z"}

----------------------------------------------------------------------------
(* call_shelly_plug *)

ErrConnect == "Failed to connect to API!"
ErrStatus == "API request failed with non 200 status code"
ErrInvalid == "Invalid response!"

CallOk(v) == [tag |-> "Ok", msg |-> "", data |-> v]
CallErr(m) == [tag |-> "Err", msg |-> m, data |-> JNull]
CallPanic(m) == [tag |-> "Panic", msg |-> m, data |-> JNull]

\* A response body: JSON text, other UTF-8 text, bytes that are not UTF-8, or
\* a body whose read fails ("aborted")
JsonBody(v) == [kind |-> "json", json |-> v]
TextBody == [kind |-> "text", json |-> JNull]
BinaryBody == [kind |-> "binary", json |-> JNull]
AbortedBody == [kind |-> "aborted", json |-> JNull]
NoBody == [kind |-> "none", json |-> JNull]

\* HTTP_CLIENT.get(url).send().await failed
send_failed == CallErr(ErrConnect)

non_2xx(http_status_code) == http_status_code < 200 \/ http_status_code > 299

\* bytes().await.unwrap_or_default(): a failed read gives no bytes, and
\* String::from_utf8 fails on bytes that are not UTF-8
from_utf8_fails(body) == body.kind = "binary"

\* call_shelly_plug once the status line is in and the body has been read
body_result(http_status_code, body) ==
    IF non_2xx(http_status_code)
    THEN IF from_utf8_fails(body)
         THEN CallPanic("Found invalid UTF-8 data!")
         ELSE CallErr(ErrStatus)
    ELSE IF body.kind = "json"
         THEN CallOk(body.json)
         ELSE CallErr(ErrInvalid)

body_log(http_status_code, body) ==
    IF non_2xx(http_status_code)
    THEN IF from_utf8_fails(body) THEN <<>> ELSE <<"error: Expected 200 http status code">>
    ELSE IF body.kind = "json" THEN <<>> ELSE <<"error: Non-JSON response returned">>

StatusCodes == {199, 200, 299, 300, 404}

SampleBodies ==
    {JsonBody(v) : v \in SampleJson} \cup {TextBody, BinaryBody, AbortedBody}

AllBodies ==
    {JsonBody(v) : v \in AllJson} \cup {TextBody, BinaryBody, AbortedBody}

----------------------------------------------------------------------------
(* get_metrics and the /metrics handler *)

Pending == [tag |-> "Pending", msg |-> "", body |-> <<>>]
Ok(body) == [tag |-> "Ok", msg |-> "", body |-> body]
Err(m) == [tag |-> "Err", msg |-> m, body |-> <<>>]
Panicked(m) == [tag |-> "Panic", msg |-> m, body |-> <<>>]

NoResponse == [status |-> 0, body |-> <<>>]

FailedBody == "Failed to process, please check application logs"

\* the handler's match on what get_metrics returned
metrics_response(res) ==
    IF res.tag = "Ok"
    THEN [status |-> 200, body |-> res.body]
    ELSE [status |-> 500, body |-> <<FailedBody>>]

metrics_log(res) ==
    IF res.tag = "Ok" THEN <<>> ELSE <<"error: An error occurred during processing">>

\* the block goes in front of what was collected
append_block_front(out, is_first, fmt_data) ==
    IF ~is_first THEN fmt_data \o <<NL>> \o out ELSE fmt_data \o out

\* the line break is added on the first run too
append_block_every(out, is_first, fmt_data) == out \o <<NL>> \o fmt_data

\* the body of the loop after the fetch: a line break on all but the first
\* run, then the block
append_block(out, is_first, fmt_data) ==
    IF ~is_first THEN out \o <<NL>> \o fmt_data ELSE out \o fmt_data

\* the loop does not move on
next_plug_same(i) == i

\* `for plug in plugs`: the next position
next_plug(i) == i + 1

\* what one completed call_shelly_plug is remembered as
Call(st, body, outcome) == [status |-> st, body |-> body, outcome |-> outcome]

\* get_metrics returns `res` and the handler answers
Return(res, lg) ==
    /\ result' = res
    /\ response' = metrics_response(res)
    /\ log' = log \o lg \o metrics_log(res)
    /\ pc' = "responded"

\* the `?` on a failed call_shelly_plug: the error is returned at once; a
\* panic unwinds through get_metrics and the handler, and nothing is answered
Abort(outcome, lg) ==
    IF outcome.tag = "Panic"
    THEN /\ result' = Panicked(outcome.msg)
         /\ response' = response
         /\ log' = log \o lg
         /\ pc' = "panicked"
    ELSE Return(Err(outcome.msg), lg)

\* main: load_plugs builds the state the server keeps
Main ==
    /\ pc = "args"
    /\ plugs' = load_plugs(ip_addrs, hostname_ip_mapping)
    /\ log' = log \o load_warnings(ip_addrs, hostname_ip_mapping)
    /\ pc' = "idle"
    /\ UNCHANGED <<ip_addrs, hostname_ip_mapping, idx, output, first, status,
                   inflight, requests, calls, result, response>>

\* GET /metrics arrives: get_metrics runs up to its first await
Start ==
    /\ pc = "idle"
    /\ output' = <<>>
    /\ first' = TRUE
    /\ idx' = 1
    /\ IF Len(plugs) = 0
       THEN /\ Return(Ok(<<>>), <<>>)
            /\ UNCHANGED <<inflight, requests>>
       ELSE /\ inflight' = inflight \cup {1}
            /\ requests' = Append(requests, 1)
            /\ pc' = "send_await"
            /\ UNCHANGED <<result, response, log>>
    /\ UNCHANGED <<ip_addrs, hostname_ip_mapping, plugs, status, calls>>

\* send().await completes: a transport failure, or a response's status line
SendDone ==
    /\ pc = "send_await"
    /\ \/ /\ calls' = Append(calls, Call(0, NoBody, send_failed))
          /\ inflight' = inflight \ {idx}
          /\ Abort(send_failed, <<"error: Failed to build the request">>)
          /\ UNCHANGED status
       \/ /\ \E code \in StatusCodes : status' = code
          /\ pc' = "body_await"
          /\ UNCHANGED <<inflight, calls, result, response, log>>
    /\ UNCHANGED <<ip_addrs, hostname_ip_mapping, plugs, idx, output, first, requests>>

\* bytes().await or json().await completes with `body`; on success the block
\* is rendered at time `datetime` and appended, and the loop goes on to its
\* next await or to the return
BodyDoneWith(body, datetime) ==
    /\ pc = "body_await"
    /\ LET outcome == body_result(status, body)
           lg == body_log(status, body)
           fmt_data == convert_to_prometheus(outcome.data, plugs[idx].alias, datetime)
           out == append_block(output, first, fmt_data)
           next == next_plug(idx)
       IN /\ calls' = Append(calls, Call(status, body, outcome))
          /\ IF outcome.tag = "Ok"
             THEN /\ output' = out
                  /\ first' = FALSE
                  /\ idx' = next
                  /\ IF next <= Len(plugs)
                     THEN /\ inflight' = (inflight \ {idx}) \cup {next}
                          /\ requests' = Append(requests, next)
                          /\ pc' = "send_await"
                          /\ UNCHANGED <<result, response, log>>
                     ELSE /\ inflight' = inflight \ {idx}
                          /\ Return(Ok(out), lg)
                          /\ UNCHANGED requests
             ELSE /\ inflight' = inflight \ {idx}
                  /\ Abort(outcome, lg)
                  /\ UNCHANGED <<output, first, idx, requests>>
    /\ UNCHANGED <<ip_addrs, hostname_ip_mapping, plugs, status>>

BodyDone == \E body \in SampleBodies, datetime \in DateTimes : BodyDoneWith(body, datetime)

BodyDoneAny == \E body \in AllBodies, datetime \in DateTimes : BodyDoneWith(body, datetime)

----------------------------------------------------------------------------
(* Inputs *)

Ip1 == <<"10.0.0.", "1">>
Ip10 == <<"10.0.0.", "1", "0">>
Ip2 == <<"10.0.0.", "2">>

Addresses == {Ip1, Ip10, Ip2}

AliasTexts == {<<>>, <<"v">>, <<"v", ":", "w">>}

\* `address:alias` entries, and entries without the separator
MappingEntries ==
    {ip \o <<":">> \o text : ip \in Addresses, text \in AliasTexts}
    \cup {ip \o <<"~", "v">> : ip \in Addresses}

SampleAddresses == {Ip1, Ip2}

SampleMappings == {<<>>, <<Ip1 \o <<":", "z", "e", "d">> >>}

Fresh ==
    /\ plugs = <<>>
    /\ pc = "args"
    /\ idx = 1
    /\ output = <<>>
    /\ first = TRUE
    /\ status = 0
    /\ inflight = {}
    /\ requests = <<>>
    /\ calls = <<>>
    /\ result = Pending
    /\ response = NoResponse
    /\ log = <<>>

Init ==
    /\ ip_addrs \in SeqsUpTo(SampleAddresses, MaxPlugs)
    /\ hostname_ip_mapping \in SampleMappings
    /\ Fresh

Next == Main \/ Start \/ SendDone \/ BodyDone

Spec == Init /\ [][Next]_vars

\* load_plugs alone, over every address list and mapping list of the bounds
InitLoad ==
    /\ ip_addrs \in SeqsUpTo(Addresses, MaxAddrs)
    /\ hostname_ip_mapping \in SeqsUpTo(MappingEntries, MaxMappings)
    /\ Fresh

NextLoad == Main

SpecLoad == InitLoad /\ [][NextLoad]_vars

\* the scrape of one device, over every body of the JSON universe
InitRender ==
    /\ ip_addrs \in {<<ip>> : ip \in SampleAddresses}
    /\ hostname_ip_mapping \in SampleMappings
    /\ Fresh

NextRender == Main \/ Start \/ SendDone \/ BodyDoneAny

SpecRender == InitRender /\ [][NextRender]_vars

----------------------------------------------------------------------------
(* Properties *)

Finished == pc \in {"responded", "panicked"}

\* str::split("\n") of a body
Lines(body) == split(body, NL)

\* every device was fetched and every fetch returned parsed JSON
AllFetchesSucceeded ==
    /\ Len(calls) = Len(plugs)
    /\ \A k \in 1..Len(calls) : calls[k].outcome.tag = "Ok"

\* a line without its value: `<name>{hostname=<alias>} `
LineLabel(name, alias) == <<name, "{hostname=">> \o alias \o <<"}", " ">>

ButLast(line) == SubSeq(line, 1, Len(line) - 1)

Last(line) == line[Len(line)]

\* the number of line breaks in a body
Breaks(body) == Cardinality({n \in 1..Len(body) : body[n] = NL})

\* C1: when every fetch of an N-device list succeeds, get_metrics returns Ok
\* with a body of exactly 7*N lines, and line 7*i+j (0-based) is the j-th
\* metric line labelled with the alias of device i, in device-list order; for
\* N = 0 the body is empty and the scrape succeeds.
C1_BlocksInDeviceOrder ==
    (Finished /\ AllFetchesSucceeded) =>
        /\ result.tag = "Ok"
        /\ IF Len(plugs) = 0
           THEN result.body = <<>>
           ELSE /\ Len(Lines(result.body)) = 7 * Len(plugs)
                /\ \A i \in 0..(Len(plugs) - 1), j \in 0..6 :
                      LET line == Lines(result.body)[7 * i + j + 1] IN
                      /\ Len(line) > 0
                      /\ ButLast(line) = LineLabel(MetricNames[j + 1], plugs[i + 1].alias)

\* two devices whose aliases are in descending order, answering differently
C1_Witness ==
    /\ Finished /\ AllFetchesSucceeded
    /\ Len(plugs) = 2
    /\ plugs[1].alias = <<"z", "e", "d">>
    /\ plugs[2].alias = Ip2
    /\ calls[1].body # calls[2].body

\* C2 (as stated): in a successful scrape of N >= 2 devices an empty line
\* stands between the last line of block i and the first line of block i+1,
\* and the body has no leading and no trailing blank line.
C2_BlankLineBetweenBlocks ==
    (Finished /\ AllFetchesSucceeded /\ Len(plugs) >= 2) =>
        LET lines == Lines(result.body) IN
        /\ Len(lines) = 8 * Len(plugs) - 1
        /\ \A i \in 1..(Len(plugs) - 1) : lines[8 * i] = <<>>
        /\ lines[1] # <<>>
        /\ lines[Len(lines)] # <<>>

\* C2 (amended): in a successful scrape of N >= 1 devices consecutive blocks
\* are separated by exactly one line break and by no blank line: the body has
\* 7*N - 1 line breaks, none at its start or end and no two in a row, so none
\* of its 7*N lines is empty.
C2_OneLineBreakBetweenBlocks ==
    (Finished /\ AllFetchesSucceeded /\ Len(plugs) >= 1) =>
        /\ Breaks(result.body) = 7 * Len(plugs) - 1
        /\ Head(result.body) # NL
        /\ Last(result.body) # NL
        /\ \A n \in 1..(Len(result.body) - 1) : ~(result.body[n] = NL /\ result.body[n + 1] = NL)
        /\ \A i \in 1..(Len(plugs) - 1) :
              /\ Lines(result.body)[7 * i] # <<>>
              /\ Lines(result.body)[7 * i + 1] # <<>>
              /\ Head(Lines(result.body)[7 * i + 1]) = MetricNames[1]

C2_Witness ==
    /\ Finished /\ AllFetchesSucceeded
    /\ Len(plugs) = 2
    /\ Breaks(result.body) = 13

\* a fetch that failed: no connection, a status outside 2xx, or no JSON body
FetchFailed(call) ==
    \/ call.status = 0
    \/ call.status < 200
    \/ call.status > 299
    \/ call.body.kind # "json"

\* C3: when the fetch of some device fails, get_metrics returns an error and
\* no body: none of the blocks rendered before is returned.
C3_AllOrNothing ==
    (Finished /\ \E k \in 1..Len(calls) : FetchFailed(calls[k])) =>
        /\ result.tag = "Err"
        /\ result.body = <<>>

\* C4: every fetch ends in one of four outcomes fixed by the response, in
\* this order: connection error, unexpected-status error whatever the body
\* is, invalid-response error, parsed JSON; the three errors differ and there
\* is no other outcome.
C4_FourOutcomes ==
    /\ ErrConnect # ErrStatus /\ ErrConnect # ErrInvalid /\ ErrStatus # ErrInvalid
    /\ \A k \in 1..Len(calls) :
          LET call == calls[k] IN
          call.outcome =
              IF call.status = 0 THEN CallErr(ErrConnect)
              ELSE IF call.status < 200 \/ call.status > 299 THEN CallErr(ErrStatus)
              ELSE IF call.body.kind # "json" THEN CallErr(ErrInvalid)
              ELSE CallOk(call.body.json)

\* C5: the handler answers 200 with the exposition text exactly when the
\* scrape succeeds, and otherwise 500 with the one fixed body.
C5_HandlerResponse ==
    Finished =>
        IF AllFetchesSucceeded
        THEN response = [status |-> 200, body |-> output]
        ELSE response = [status |-> 500, body |-> <<FailedBody>>]

\* the six values a block shows after the timestamp: the keys read, in order
FieldPaths ==
    <<<<"apower">>, <<"voltage">>, <<"current">>, <<"temperature", "tC">>,
      <<"temperature", "tF">>, <<"aenergy", "total">>>>

HasKey(v, key) == v.kind = "object" /\ key \in DOMAIN v.members

\* the field is present in the device's JSON
Present(v, path) ==
    /\ HasKey(v, path[1])
    /\ Len(path) = 2 => HasKey(v.members[path[1]], path[2])

\* the field as the device sent it
Sent(v, path) ==
    IF Len(path) = 1 THEN v.members[path[1]] ELSE v.members[path[1]].members[path[2]]

\* C8: every JSON value returned with a 2xx status is rendered as exactly
\* seven lines in the fixed metric order; a field that is present is shown as
\* sent, a missing one as `null`; and the scrape goes on: when the device is
\* the last one the handler answers 200.
C8_RenderingPermissive ==
    \A k \in 1..Len(calls) :
        (~FetchFailed(calls[k])) =>
            LET v == calls[k].body.json IN
            /\ calls[k].outcome = CallOk(v)
            /\ Len(Lines(output)) >= 7 * k
            /\ \A j \in 1..7 : Head(Lines(output)[7 * (k - 1) + j]) = MetricNames[j]
            /\ Last(Lines(output)[7 * (k - 1) + 1]) \in DateTimes
            /\ \A j \in 2..7 :
                  Last(Lines(output)[7 * (k - 1) + j]) =
                      IF Present(v, FieldPaths[j - 1])
                      THEN Sent(v, FieldPaths[j - 1]).text
                      ELSE "null"
            /\ (k = Len(plugs)) =>
                  /\ Len(Lines(output)) = 7 * k
                  /\ pc = "responded"
                  /\ response = [status |-> 200, body |-> output]

\* an object whose `temperature` is a number and which lacks `voltage`,
\* returned with status 299, has been rendered and answered
C8_Witness ==
    /\ pc = "responded"
    /\ Len(calls) = 1
    /\ calls[1].status = 299
    /\ calls[1].body.kind = "json"
    /\ HasKey(calls[1].body.json, "temperature")
    /\ calls[1].body.json.members["temperature"].kind = "number"
    /\ ~HasKey(calls[1].body.json, "voltage")
    /\ response.status = 200

\* C9: within one scrape run the devices requested are a prefix of the device
\* list, in list order and each once; at most one request is outstanding;
\* device n is requested only after devices 1..n-1 were fetched successfully
\* and rendered; and nothing is requested after a failed fetch.
C9_FetchesArePrefix ==
    /\ Len(requests) <= Len(plugs)
    /\ \A n \in 1..Len(requests) : requests[n] = n
    /\ Cardinality(inflight) <= 1
    /\ inflight \subseteq {Len(requests)}
    /\ Len(calls) \in {Len(requests) - Cardinality(inflight), Len(requests)}
    /\ Len(calls) <= Len(requests)
    /\ \A n \in 2..Len(requests) :
          /\ calls[n - 1].outcome.tag = "Ok"
          /\ Len(Lines(output)) >= 7 * (n - 1)
    /\ \A k \in 1..Len(calls) :
          calls[k].outcome.tag # "Ok" => (Len(requests) = k /\ inflight = {} /\ Finished)

\* the first of two devices failed: the second was never requested
C9_Witness ==
    /\ Finished
    /\ Len(plugs) = 2
    /\ Len(calls) = 1
    /\ calls[1].outcome.tag = "Err"
    /\ requests = <<1>>

----------------------------------------------------------------------------
(* Properties of load_plugs *)

HasSeparator(mapping) == \E n \in 1..Len(mapping) : mapping[n] = ":"

\* the text before the first separator
AddressPart(mapping) ==
    LET n == CHOOSE m \in 1..Len(mapping) :
                 mapping[m] = ":" /\ \A q \in 1..(m - 1) : mapping[q] # ":"
    IN SubSeq(mapping, 1, n - 1)

\* the text after the first separator
AliasPart(mapping) ==
    LET n == CHOOSE m \in 1..Len(mapping) :
                 mapping[m] = ":" /\ \A q \in 1..(m - 1) : mapping[q] # ":"
    IN SubSeq(mapping, n + 1, Len(mapping))

\* the text after the first separator, up to the second one
AliasField(mapping) ==
    LET rest == AliasPart(mapping)
        stop == {n \in 1..Len(rest) : rest[n] = ":"}
    IN IF stop = {} THEN rest
       ELSE SubSeq(rest, 1, (CHOOSE n \in stop : \A q \in stop : n <= q) - 1)

Entries == {hostname_ip_mapping[n] : n \in 1..Len(hostname_ip_mapping)}

\* the well-formed entries of an address, and its entries without separator
WellFormedFor(ip) == {m \in Entries : HasSeparator(m) /\ AddressPart(m) = ip}

MalformedFor(ip) ==
    {m \in Entries : ~HasSeparator(m) /\ Len(m) > Len(ip)
                     /\ SubSeq(m, 1, Len(ip) + 1) = ip \o <<"~">>}

\* C6: load_plugs builds one device per address, in address order; a device
\* with a well-formed entry gets that entry's alias wherever the entry stands
\* and whatever other entries there are; a device with no well-formed entry
\* keeps its raw address.  (Where the address has several entries, any of
\* their outcomes is accepted.)
C6_AliasFromMapping ==
    pc = "idle" =>
        /\ Len(plugs) = Len(ip_addrs)
        /\ \A i \in 1..Len(ip_addrs) :
              LET ip == ip_addrs[i]
                  given == {AliasPart(m) : m \in WellFormedFor(ip)}
                           \cup {AliasField(m) : m \in WellFormedFor(ip)}
              IN /\ plugs[i].url = <<"http://">> \o ip \o <<"/rpc/Switch.GetStatus?id=0">>
                 /\ IF WellFormedFor(ip) = {} THEN plugs[i].alias = ip
                    ELSE IF MalformedFor(ip) = {} THEN plugs[i].alias \in given
                    ELSE plugs[i].alias \in given \cup {ip}

\* C7: every device load_plugs builds from non-empty addresses has a
\* non-empty alias, whatever the mapping entries are.
C7_AliasNonEmpty ==
    (pc = "idle" /\ \A i \in 1..Len(ip_addrs) : ip_addrs[i] # <<>>) =>
        \A i \in 1..Len(plugs) : plugs[i].alias # <<>>

\* C10: a device none of whose entries has its address as address part keeps
\* its raw address as alias, also when its address is a piece of another
\* entry's address.
C10_OnlyOwnEntry ==
    pc = "idle" =>
        \A i \in 1..Len(ip_addrs) :
            (\A m \in Entries : HasSeparator(m) => AddressPart(m) # ip_addrs[i])
                => plugs[i].alias = ip_addrs[i]

====
